---------------------------- MODULE Spec2Model ----------------------------
(***************************************************************************)
(* A model of src/process-image.ts: the one-shot script that splits a      *)
(* scanned two-column question sheet, runs OCR on each column, cleans the  *)
(* recognised text and parses it into questions.                           *)
(*                                                                         *)
(* A JavaScript string is modelled as a sequence of characters, each       *)
(* character a one-element TLA+ string.  The characters that are not       *)
(* ASCII carry a name: EMDASH (U+2014), FI and FL (the ligatures U+FB01    *)
(* and U+FB02) and SECT (U+00A7); each is one UTF-16 unit, as in the       *)
(* script, so lengths agree.                                               *)
(***************************************************************************)
EXTENDS Integers, Sequences, FiniteSets, TLC

VARIABLES
    pc,              \* the position of the script
    awaiting,        \* TRUE while the promise of the step at pc is pending
    cwd,             \* the directory the process was started in
    imageExists,     \* whether image.jpg exists beside the program
    files,           \* the intermediate files that exist, as <<dir, name>>
    written,         \* the paths this run wrote an intermediate file to
    worker,          \* the variable `worker`: "unset", "live", "terminated"
    calls,           \* how often createWorker and terminate were invoked
    log,             \* the steps begun and ended, in order
    leftData,        \* leftData.data.text, NoData before recognition
    rightData,       \* rightData.data.text, NoData before recognition
    fullText,        \* leftText + '\n\n' + rightText
    questions,       \* the accepted questions, in block order
    uniqueQuestions, \* the deduplicated, sorted questions
    output,          \* the contents of ocr_output.json, NoOutput if unwritten
    errors,          \* the messages given to console.error, in order
    text,            \* the argument of cleanOCRText under study
    cleaned,         \* cleanOCRText(text)
    recleaned        \* cleanOCRText(cleanOCRText(text))

vars == <<pc, awaiting, cwd, imageExists, files, written, worker, calls, log,
          leftData, rightData, fullText, questions, uniqueQuestions, output,
          errors, text, cleaned, recleaned>>

runVars == <<awaiting, cwd, imageExists, files, written, worker, calls, log,
             leftData, rightData, fullText, output, errors>>

cleanVars == <<text, cleaned, recleaned>>

-----------------------------------------------------------------------------
(* Bounds of the model.                                                    *)

MaxTextLen == 5      \* the longest argument of cleanOCRText enumerated
MaxBlocks == 1       \* the most question blocks recognised in one column
MaxQuestions == 4    \* the longest sequence of accepted questions enumerated
MaxQNum == 3         \* the largest question number in those sequences

-----------------------------------------------------------------------------
(* Characters.                                                             *)

EMDASH == "EMDASH"
FI == "FI"
FL == "FL"
SECT == "SECT"

TAB == "\t"
VT == "VT"
FF == "\f"
CR == "\r"
NBSP == "NBSP"
LS == "LS"
PS == "PS"

\* \n of the regular expressions.
Newline == {"\n"}
\* The characters . does not match without flag s: LF, CR, U+2028, U+2029.
LineTerminator == {"\n", CR, LS, PS}
\* The space separators and the byte order mark.
UnicodeSpace ==
    {"U+1680", "U+2000", "U+2001", "U+2002", "U+2003", "U+2004", "U+2005", "U+2006",
     "U+2007", "U+2008", "U+2009", "U+200A", "U+202F", "U+205F", "U+3000", "U+FEFF"}
\* \s of the regular expressions, and what trim() strips.
WhiteSpace == {" ", TAB, VT, FF, NBSP} \cup LineTerminator \cup UnicodeSpace
Digit == {"0", "1", "2", "3", "4", "5", "6", "7", "8", "9"}
LowerLetter == {"a", "b", "c", "d", "e", "f", "g", "h", "i", "j", "k", "l", "m",
                "n", "o", "p", "q", "r", "s", "t", "u", "v", "w", "x", "y", "z"}
LowerOf == [A |-> "a", B |-> "b", C |-> "c", D |-> "d", E |-> "e", F |-> "f",
            G |-> "g", H |-> "h", I |-> "i", J |-> "j", K |-> "k", L |-> "l",
            M |-> "m", N |-> "n", O |-> "o", P |-> "p", Q |-> "q", R |-> "r",
            S |-> "s", T |-> "t", U |-> "u", V |-> "v", W |-> "w", X |-> "x",
            Y |-> "y", Z |-> "z"]
UpperLetter == DOMAIN LowerOf
WordChar == LowerLetter \cup UpperLetter \cup Digit \cup {"_"}
OptionLetter == {"a", "b", "c", "d"}

\* A character under the regular expression flag i.
Lower(c) == IF c \in UpperLetter THEN LowerOf[c] ELSE c

DigitValue(c) == CHOOSE v \in 0..9 : <<"0", "1", "2", "3", "4", "5", "6", "7", "8", "9">>[v + 1] = c

-----------------------------------------------------------------------------
(* Strings and the regular expression steps the script is made of.         *)
(* Positions are 1-based; an "end" is the position after the last          *)
(* character matched.                                                      *)

\* F(v), with v computed once and F applied to the value: the operators
\* below use their arguments many times over.
Let(v, F(_)) == CHOOSE r \in {F(x) : x \in {v}} : TRUE

\* The least and the greatest element of a non-empty set of positions.
First(S) == CHOOSE x \in S : \A y \in S : x <= y
Last(S) == CHOOSE x \in S : \A y \in S : y <= x

\* String.prototype.substring(i - 1): the string from position i on.
Drop(s, i) == SubSeq(s, i, Len(s))

\* s[i] is in class C (and i is a position of s).
At(s, i, C) == i >= 1 /\ i <= Len(s) /\ s[i] \in C

\* The end of the longest run of characters of class C starting at i: a
\* greedy C* at i.
RECURSIVE RunEnd(_, _, _)
RunEnd(s, i, C) ==
    IF i <= Len(s) /\ s[i] \in C THEN RunEnd(s, i + 1, C) ELSE i

\* The literal pat at position i.
MatchLit(s, i, pat) ==
    /\ i + Len(pat) - 1 <= Len(s)
    /\ \A k \in 1..Len(pat) : s[i + k - 1] = pat[k]

\* The literal pat (given in lower case) at position i, under flag i.
MatchLitCI(s, i, pat) ==
    /\ i + Len(pat) - 1 <= Len(s)
    /\ \A k \in 1..Len(pat) : Lower(s[i + k - 1]) = pat[k]

\* replace(/pat/g, rep) for a literal pat, from position i on: the text up
\* to the next match is kept, the match replaced, and the search goes on
\* after the match.
RECURSIVE ReplaceLitFrom(_, _, _, _)
ReplaceLitFrom(s, i, pat, rep) ==
    LET hits == {k \in i..Len(s) : MatchLit(s, k, pat)} IN
    IF hits = {} THEN Drop(s, i)
    ELSE Let(First(hits), LAMBDA k :
             SubSeq(s, i, k - 1) \o rep \o ReplaceLitFrom(s, k + Len(pat), pat, rep))

ReplaceLit(s0, pat, rep) == Let(s0, LAMBDA s : ReplaceLitFrom(s, 1, pat, rep))

\* replace(/\s*c\s*/g, rep), from position i on.  The greedy \s* takes the
\* whole run of white space; with less of it the next character is white
\* space again, never c.
RECURSIVE ReplaceSpacedFrom(_, _, _, _)
ReplaceSpacedFrom(s, i, c, rep) ==
    LET hits == {k \in i..Len(s) : At(s, RunEnd(s, k, WhiteSpace), {c})} IN
    IF hits = {} THEN Drop(s, i)
    ELSE Let(First(hits), LAMBDA k :
             SubSeq(s, i, k - 1) \o rep
                 \o ReplaceSpacedFrom(s, RunEnd(s, RunEnd(s, k, WhiteSpace) + 1, WhiteSpace),
                                      c, rep))

ReplaceSpaced(s0, c, rep) == Let(s0, LAMBDA s : ReplaceSpacedFrom(s, 1, c, rep))

\* replace(/[C]+/g, rep), from position i on.
RECURSIVE ReplaceRunsFrom(_, _, _, _)
ReplaceRunsFrom(s, i, C, rep) ==
    LET hits == {k \in i..Len(s) : s[k] \in C} IN
    IF hits = {} THEN Drop(s, i)
    ELSE Let(First(hits), LAMBDA k :
             SubSeq(s, i, k - 1) \o rep \o ReplaceRunsFrom(s, RunEnd(s, k, C), C, rep))

ReplaceRuns(s0, C, rep) == Let(s0, LAMBDA s : ReplaceRunsFrom(s, 1, C, rep))

\* String.prototype.trim: from the first to the last character that is not
\* white space.
Trim(s0) ==
    Let(s0, LAMBDA s :
        Let({k \in 1..Len(s) : s[k] \notin WhiteSpace}, LAMBDA solid :
            IF solid = {} THEN <<>> ELSE SubSeq(s, First(solid), Last(solid))))

-----------------------------------------------------------------------------
(* cleanOCRText: the replacements in the order of the source, each on the  *)
(* result of the one before.                                               *)

FixWords(s) ==
    LET s1 == ReplaceLit(s, <<"c", "q", "u", "a", "t", "i", "o", "n">>,
                            <<"e", "q", "u", "a", "t", "i", "o", "n">>)
        s2 == ReplaceLit(s1, <<"c", "q", "u", "a", "l">>, <<"e", "q", "u", "a", "l">>)
        s3 == ReplaceLit(s2, <<"r", "0", "0", "t">>, <<"r", "o", "o", "t">>)
        s4 == ReplaceLit(s3, <<"r", "0", "o", "t">>, <<"r", "o", "o", "t">>)
        s5 == ReplaceLit(s4, <<"r", "o", "0", "t">>, <<"r", "o", "o", "t">>)
        s6 == ReplaceLit(s5, <<"r", "n", "o", "t">>, <<"r", "o", "o", "t">>)
    IN  ReplaceLit(s6, <<"r", "r", "o", "t">>, <<"r", "o", "o", "t">>)

FixEmDash(s) == ReplaceSpaced(s, EMDASH, <<" ", "-", " ">>)

FixHyphen(s) == ReplaceSpaced(s, "-", <<"-">>)

FixLigatures(s) == ReplaceLit(ReplaceLit(s, <<FI>>, <<"f", "i">>), <<FL>>, <<"f", "l">>)

FixBrackets(s) ==
    LET s1 == ReplaceLit(s, <<"[", " ">>, <<"[">>)
        s2 == ReplaceLit(s1, <<" ", "]">>, <<"]">>)
        s3 == ReplaceLit(s2, <<"(", " ", "S", "h", "i", "f", "t">>,
                             <<"(", "S", "h", "i", "f", "t">>)
    IN  ReplaceLit(s3, <<"|", ")">>, <<"1", ")">>)

FixConfusables(s) ==
    LET s1 == ReplaceLit(s, <<"O">>, <<"0">>)
        s2 == ReplaceLit(s1, <<"l">>, <<"1">>)
    IN  ReplaceLit(s2, <<SECT>>, <<"S">>)

CollapseWhiteSpace(s) == Trim(ReplaceRuns(s, WhiteSpace, <<" ">>))

cleanOCRText(s) ==
    CollapseWhiteSpace(FixConfusables(FixBrackets(FixLigatures(
        FixHyphen(FixEmDash(FixWords(s)))))))

-----------------------------------------------------------------------------
(* Step 5 of the script: from the full text to the accepted questions.     *)

\* (\d+\.)\s+ at position k.  \d+ takes the whole run of digits: with fewer
\* the next character is a digit, never the dot.
NumberDotAt(s, k) ==
    /\ At(s, k, Digit)
    /\ At(s, RunEnd(s, k, Digit), {"."})
    /\ At(s, RunEnd(s, k, Digit) + 1, WhiteSpace)

\* replace(/(\d+\.)\s+/g, '\n$1 '), from position i on.
RECURSIVE MarkNumbersFrom(_, _)
MarkNumbersFrom(s, i) ==
    LET hits == {k \in i..Len(s) : NumberDotAt(s, k)} IN
    IF hits = {} THEN Drop(s, i)
    ELSE Let(First(hits), LAMBDA k :
             SubSeq(s, i, k - 1) \o <<"\n">> \o SubSeq(s, k, RunEnd(s, k, Digit)) \o <<" ">>
                 \o MarkNumbersFrom(s, RunEnd(s, RunEnd(s, k, Digit) + 1, WhiteSpace)))

NormalizedText(full) ==
    Let(ReplaceRuns(cleanOCRText(full), Newline, <<" ">>),
        LAMBDA s : MarkNumbersFrom(s, 1))

\* \d{1,2}\.\s+ at position i.
MarkerAt(s, i) ==
    \E d \in {1, 2} :
        /\ \A k \in 0..(d - 1) : At(s, i + k, Digit)
        /\ At(s, i + d, {"."})
        /\ At(s, i + d + 1, WhiteSpace)

\* The lookahead (?=\n?\d{1,2}\.\s+) at position i.
SplitLookahead(s, i) ==
    \/ At(s, i, {"\n"}) /\ MarkerAt(s, i + 1)
    \/ MarkerAt(s, i)

\* The positions split() cuts before: a match of width zero at the position
\* where the piece in hand starts is skipped, so position 1 never cuts.
SplitPoints(s) == {i \in 2..Len(s) : SplitLookahead(s, i)}

\* The pieces of s from position p on, cut before each of the points.
RECURSIVE PiecesFrom(_, _, _)
PiecesFrom(s, p, points) ==
    LET later == {q \in points : q > p} IN
    IF later = {} THEN <<Drop(s, p)>>
    ELSE Let(First(later), LAMBDA q :
             <<SubSeq(s, p, q - 1)>> \o PiecesFrom(s, q, points))

\* normalizedText.split(/(?=\n?\d{1,2}\.\s+)/).filter(block => block.trim()).
QuestionBlocks(normalized) ==
    Let(normalized, LAMBDA s :
        Let(SplitPoints(s), LAMBDA points :
            SelectSeq(PiecesFrom(s, 1, points), LAMBDA block : Trim(block) # <<>>)))

\* The digits matched by ^(\d{1,2})\. at the head of the block before \s+:
\* two if that matches, else one, else none (0).
MarkerDigits(block) ==
    IF At(block, 1, Digit) /\ At(block, 2, Digit) /\ At(block, 3, {"."})
          /\ At(block, 4, WhiteSpace) THEN 2
    ELSE IF At(block, 1, Digit) /\ At(block, 2, {"."}) /\ At(block, 3, WhiteSpace) THEN 1
    ELSE 0

\* parseInt(digits, 10).
RECURSIVE ParseInt(_)
ParseInt(digits) ==
    IF digits = <<>> THEN 0
    ELSE 10 * ParseInt(SubSeq(digits, 1, Len(digits) - 1))
            + DigitValue(digits[Len(digits)])

\* The end of \[\d{2}\s+\w+,\s+\d{4}\s+\(Shift-[I]+\)\] (flag i) at position
\* i, or 0.  Each class is disjoint from what follows it, so every
\* quantifier takes its whole run.
TagEnd(s, i) ==
    LET j1 == RunEnd(s, i + 3, WhiteSpace)
        j2 == RunEnd(s, j1, WordChar)
        j3 == RunEnd(s, j2 + 1, WhiteSpace)
        j4 == RunEnd(s, j3 + 4, WhiteSpace)
        j5 == RunEnd(s, j4 + 7, {"I", "i"})
    IN  IF /\ At(s, i, {"["}) /\ At(s, i + 1, Digit) /\ At(s, i + 2, Digit)
           /\ j1 > i + 3
           /\ j2 > j1 /\ At(s, j2, {","})
           /\ j3 > j2 + 1
           /\ \A k \in 0..3 : At(s, j3 + k, Digit)
           /\ j4 > j3 + 4
           /\ MatchLitCI(s, j4, <<"(", "s", "h", "i", "f", "t", "-">>)
           /\ j5 > j4 + 7
           /\ At(s, j5, {")"}) /\ At(s, j5 + 1, {"]"})
        THEN j5 + 2
        ELSE 0

\* replace(/\[\d{2}\s+\w+,\s+\d{4}\s+\(Shift-[I]+\)\]/gi, ''), from i on.
RECURSIVE StripTagsFrom(_, _)
StripTagsFrom(s, i) ==
    LET hits == {k \in i..Len(s) : TagEnd(s, k) # 0} IN
    IF hits = {} THEN Drop(s, i)
    ELSE Let(First(hits), LAMBDA k :
             SubSeq(s, i, k - 1) \o StripTagsFrom(s, TagEnd(s, k)))

StripTags(s0) == Let(s0, LAMBDA s : StripTagsFrom(s, 1))

\* optionStartPattern /([\(|a]\s*[a-d]\s*\))/i at position i.
OptionStartAt(s, i) ==
    /\ i <= Len(s) /\ Lower(s[i]) \in {"(", "|", "a"}
    /\ LET j == RunEnd(s, i + 1, WhiteSpace) IN
        /\ j <= Len(s) /\ Lower(s[j]) \in OptionLetter
        /\ At(s, RunEnd(s, j + 1, WhiteSpace), {")"})

\* parts[0] of content.split(optionStartPattern): content up to the first
\* match, all of it when there is none.
FirstPart(content) ==
    Let({i \in 1..Len(content) : OptionStartAt(content, i)}, LAMBDA hits :
        IF hits = {} THEN content ELSE SubSeq(content, 1, First(hits) - 1))

\* The lookahead (?=\s*[a-d]\)|$) at position m.
OptionLookahead(s, m) ==
    \/ LET j == RunEnd(s, m, WhiteSpace) IN
           j <= Len(s) /\ Lower(s[j]) \in OptionLetter /\ At(s, j + 1, {")"})
    \/ m = Len(s) + 1

\* The lazy (.*?) from position m: the first position the lookahead holds
\* at, 0 when a line terminator (which . does not match) comes first.
LazyEnd(s, m) ==
    Let(First({k \in m..(Len(s) + 1) :
                  OptionLookahead(s, k) \/ s[k] \in LineTerminator}),
        LAMBDA stop : IF OptionLookahead(s, stop) THEN stop ELSE 0)

\* The greedy \s* after the close-paren, giving back one character at a
\* time from k down to k0: the start of group 2 that lets the rest match,
\* 0 when none does.
RECURSIVE OptionTextStart(_, _, _)
OptionTextStart(s, k, k0) ==
    IF LazyEnd(s, k) # 0 THEN k
    ELSE IF k = k0 THEN 0
    ELSE OptionTextStart(s, k - 1, k0)

\* /\s*([a-d])\)\s*(.*?)(?=\s*[a-d]\)|$)/gi at position i.
OptionMatchAt(s, i) ==
    Let(RunEnd(s, i, WhiteSpace), LAMBDA j :
        IF j <= Len(s) /\ Lower(s[j]) \in OptionLetter /\ At(s, j + 1, {")"})
        THEN Let(OptionTextStart(s, RunEnd(s, j + 2, WhiteSpace), j + 2), LAMBDA k :
                 IF k # 0
                 THEN [ok |-> TRUE, key |-> <<s[j]>>,
                       text |-> SubSeq(s, k, LazyEnd(s, k) - 1), end |-> LazyEnd(s, k)]
                 ELSE [ok |-> FALSE, key |-> <<>>, text |-> <<>>, end |-> 0])
        ELSE [ok |-> FALSE, key |-> <<>>, text |-> <<>>, end |-> 0])

\* [...optionsText.matchAll(...)] from position i on, each match mapped to
\* {key: match[1], text: cleanOCRText(match[2])}.
RECURSIVE OptionsFrom(_, _)
OptionsFrom(s, i) ==
    LET hits == {k \in i..Len(s) : OptionMatchAt(s, k).ok} IN
    IF hits = {} THEN <<>>
    ELSE Let(OptionMatchAt(s, First(hits)), LAMBDA m :
             <<[key |-> m.key, text |-> cleanOCRText(m.text)]>> \o OptionsFrom(s, m.end))

Options(optionsText) == Let(optionsText, LAMBDA s : OptionsFrom(s, 1))

\* The guard with || for &&.
AcceptsEither(questionText, options) == Len(questionText) > 10 \/ Len(options) > 1

\* The guard of questions.push.
Accepts(questionText, options) == Len(questionText) > 10 /\ Len(options) > 1

\* qMatch[2].trim() with the session tags removed and trimmed again.
Content(block) ==
    Trim(StripTags(Trim(Drop(block, RunEnd(block, MarkerDigits(block) + 2, WhiteSpace)))))

\* The body of the loop over questionBlocks for one block: whether qMatch
\* matched, and the question pushed (if the guard let it).
ParseBlock(block) ==
    IF MarkerDigits(block) = 0 THEN [matched |-> FALSE, pushed |-> FALSE]
    ELSE Let(Content(block), LAMBDA content :
         Let(cleanOCRText(FirstPart(content)), LAMBDA questionText :
         Let(Options(Drop(content, Len(questionText) + 1)), LAMBDA options :
             [matched |-> TRUE,
              pushed |-> Accepts(questionText, options),
              question |-> [questionNumber |-> ParseInt(SubSeq(block, 1, MarkerDigits(block))),
                            text |-> questionText,
                            options |-> options]])))

\* The questions pushed, in block order.
RECURSIVE PushedFrom(_, _)
PushedFrom(blocks, i) ==
    IF i > Len(blocks) THEN <<>>
    ELSE Let(ParseBlock(blocks[i]), LAMBDA r :
             IF r.matched /\ r.pushed
             THEN <<r.question>> \o PushedFrom(blocks, i + 1)
             ELSE PushedFrom(blocks, i + 1))

ParseQuestions(full) ==
    Let(QuestionBlocks(NormalizedText(full)), LAMBDA blocks : PushedFrom(blocks, 1))

-----------------------------------------------------------------------------
(* uniqueQuestions: the reduce keeps the first question of each number,    *)
(* the sort orders them by number.                                         *)

\* The reducer that lets a later question of a number take the place of the
\* one kept.
KeepLast(acc, q) ==
    IF \E k \in 1..Len(acc) : acc[k].questionNumber = q.questionNumber
    THEN [k \in 1..Len(acc) |->
             IF acc[k].questionNumber = q.questionNumber THEN q ELSE acc[k]]
    ELSE Append(acc, q)

\* The reducer: acc with q pushed unless a question of its number is there.
KeepFirst(acc, q) ==
    IF \E k \in 1..Len(acc) : acc[k].questionNumber = q.questionNumber
    THEN acc
    ELSE Append(acc, q)

\* questions.reduce(reducer, []), over the first n questions.
RECURSIVE ReduceFirst(_, _)
ReduceFirst(qs, n) ==
    IF n = 0 THEN <<>>
    ELSE Let(ReduceFirst(qs, n - 1), LAMBDA acc : KeepFirst(acc, qs[n]))

\* The comparator (a, b) => a.questionNumber - b.questionNumber.
Compare(a, b) == a.questionNumber - b.questionNumber

\* q put into the sorted sequence acc after every element that does not
\* compare above it (Array.prototype.sort is stable).
InsertSorted(acc, q) ==
    Let({k \in 1..Len(acc) : Compare(acc[k], q) > 0}, LAMBDA above :
        IF above = {} THEN Append(acc, q)
        ELSE SubSeq(acc, 1, First(above) - 1) \o <<q>> \o Drop(acc, First(above)))

\* .sort(comparator), over the first n elements.
RECURSIVE SortQuestions(_, _)
SortQuestions(qs, n) ==
    IF n = 0 THEN <<>>
    ELSE Let(SortQuestions(qs, n - 1), LAMBDA acc : InsertSorted(acc, qs[n]))

UniqueQuestions(qs) ==
    Let(ReduceFirst(qs, Len(qs)), LAMBDA kept : SortQuestions(kept, Len(kept)))

-----------------------------------------------------------------------------
(* The run: the module's top-level code and the async main function.       *)

IMAGE_FILE_NAME == <<"i", "m", "a", "g", "e", ".", "j", "p", "g">>
PREPROCESSED_LEFT_NAME == "left-preprocessed.png"
PREPROCESSED_RIGHT_NAME == "right-preprocessed.png"

\* path.resolve(__dirname, '..') and any other directory.
ProjectDir == "project"
Directories == {ProjectDir, "elsewhere"}

\* toFile(name) and recognize(name) take the bare name: a relative path,
\* which the process resolves against its working directory.
WrittenPath(dir, name) == <<dir, name>>

\* The path the finally block tests and unlinks:
\* path.resolve(__dirname, '..', file).
CleanupPath(dir, name) == <<ProjectDir, name>>

NoData == <<"undefined">>
NoOutput == [exists |-> FALSE]

\* The try block with each column enhanced and recognised in turn.
ProgramOrderByColumn ==
    <<"metadata", "createWorker", "setParameters", "leftPre", "recLeft",
      "rightPre", "recRight", "emptyCheck", "parse", "write">>

\* The steps of the try block in program order.
ProgramOrder ==
    <<"metadata", "leftPre", "rightPre", "createWorker", "setParameters",
      "recLeft", "recRight", "emptyCheck", "parse", "write">>

\* The steps that await an external call.
Awaited == {"metadata", "leftPre", "rightPre", "createWorker", "setParameters",
            "recLeft", "recRight", "terminate"}

\* The step after `step` when it completes normally; the finally block
\* follows the last one.
After(step) ==
    LET k == CHOOSE i \in 1..Len(ProgramOrder) : ProgramOrder[i] = step IN
    IF k = Len(ProgramOrder) THEN "finally" ELSE ProgramOrder[k + 1]

\* terminate() kept for the runs that logged no error.
ShouldTerminateOnSuccess(w) == w # "unset" /\ errors = <<>>

\* The test `if (worker)` of the finally block.
ShouldTerminate(w) == w # "unset"

\* The test of the empty-text check: !leftData.data.text || !rightData.data.text.
NoTextFound(left, right) == left = <<>> \/ right = <<>>

\* What a column of the sheet may hold, as the engine recognises it.
SpecExample ==
    <<"1", ".", " ", "W", "h", "a", "t", " ", "i", "s", " ", "2", "+", "2", "?", " ",
      "a", ")", " ", "3", " ", "b", ")", " ", "4", " ", "c", ")", " ", "5", " ",
      "d", ")", " ", "6">>
ParenBlock ==
    <<"2", ".", " ", "W", "h", "a", "t", " ", "i", "s", " ", "3", "+", "3", "?", " ",
      "(", "a", ")", " ", "5", " ", "(", "b", ")", " ", "6">>
TwoDigitBlock ==
    <<"1", "2", ".", " ", "W", "h", "a", "t", " ", "i", "s", " ", "4", "+", "4", "?", " ",
      "(", "a", ")", " ", "7", " ", "(", "b", ")", " ", "8">>
ShortBlock ==
    <<"3", ".", " ", "I", "s", " ", "i", "t", "?", " ",
      "(", "a", ")", " ", "1", " ", "(", "b", ")", " ", "2">>
OneOptionBlock ==
    <<"4", ".", " ", "W", "h", "a", "t", " ", "i", "s", " ", "5", "+", "5", "?", " ",
      "(", "a", ")", " ", "1", "0">>
TaggedBlock ==
    <<"7", ".", " ", "W", "h", "a", "t", " ", "i", "s", " ", "6", "+", "6", "?", " ",
      "[", "1", "2", " ", "A", "p", "r", "i", "l", ",", " ", "2", "0", "1", "9", " ",
      "(", "S", "h", "i", "f", "t", "-", "I", "I", ")", "]", " ",
      "(", "a", ")", " ", "1", "1", " ", "(", "b", ")", " ", "1", "2">>

\* A sheet of question blocks, in the order they are printed.
SampleBlocks ==
    <<SpecExample, ParenBlock, ShortBlock, OneOptionBlock, TaggedBlock, TwoDigitBlock>>

\* The blocks of a column, one per line.
RECURSIVE JoinLines(_)
JoinLines(blocks) ==
    IF blocks = <<>> THEN <<>>
    ELSE IF Len(blocks) = 1 THEN blocks[1]
    ELSE blocks[1] \o <<"\n">> \o JoinLines(Tail(blocks))

\* The texts recognize() may yield for a column: no text, or up to
\* MaxBlocks consecutive blocks of the sheet.
ColumnTexts ==
    {JoinLines(SubSeq(SampleBlocks, run[1], run[2])) :
        run \in {r \in (1..Len(SampleBlocks)) \X (0..Len(SampleBlocks)) :
                    r[2] - r[1] + 1 \in 0..MaxBlocks}}

\* Lines 113, 117 and 123: each column cleaned, the two joined by a blank
\* line.
FullText(left, right) ==
    cleanOCRText(left) \o <<"\n", "\n">> \o cleanOCRText(right)

\* FullText and ParseQuestions over the texts the columns may yield,
\* tabulated: the script computes each once in a run.
FullTextOf == [columns \in ColumnTexts \X ColumnTexts |-> FullText(columns[1], columns[2])]
ParsedOf ==
    [full \in {FullTextOf[columns] : columns \in ColumnTexts \X ColumnTexts} |->
        ParseQuestions(full)]

RunInit ==
    /\ pc = "start"
    /\ awaiting = FALSE
    /\ cwd \in Directories
    /\ imageExists \in BOOLEAN
    /\ files = {}
    /\ written = {}
    /\ worker = "unset"
    /\ calls = [createWorker |-> 0, terminate |-> 0]
    /\ log = <<>>
    /\ leftData = NoData
    /\ rightData = NoData
    /\ fullText = <<>>
    /\ questions = <<>>
    /\ uniqueQuestions = <<>>
    /\ output = NoOutput
    /\ errors = <<>>

Init ==
    /\ RunInit
    /\ text = <<>>
    /\ cleaned = <<>>
    /\ recleaned = <<>>

\* Lines 27-30: without the image the process exits with status 1 before
\* the main function is entered.
Startup ==
    /\ pc = "start"
    /\ IF imageExists
       THEN /\ pc' = ProgramOrder[1]
            /\ errors' = errors
       ELSE /\ pc' = "exited"
            /\ errors' = Append(errors, "FATAL")
    /\ UNCHANGED <<awaiting, cwd, imageExists, files, written, worker, calls, log,
                   leftData, rightData, fullText, questions, uniqueQuestions,
                   output, text, cleaned, recleaned>>

\* An awaited call of the try block is issued.
Begin ==
    /\ pc \in Awaited \ {"terminate"}
    /\ ~awaiting
    /\ awaiting' = TRUE
    /\ log' = Append(log, <<"begin", pc>>)
    /\ calls' = IF pc = "createWorker"
                THEN [calls EXCEPT !.createWorker = @ + 1]
                ELSE calls
    /\ UNCHANGED <<pc, cwd, imageExists, files, written, worker, leftData, rightData,
                   fullText, questions, uniqueQuestions, output, errors, text,
                   cleaned, recleaned>>

\* The pending call of `step` resolves.
Resolves(step) ==
    /\ pc = step
    /\ awaiting
    /\ awaiting' = FALSE
    /\ log' = Append(log, <<"end", step>>)
    /\ pc' = After(step)

\* The pending call of `step` rejects (or the code after it throws): the
\* catch block is next.
Rejects(step) ==
    /\ pc = step
    /\ awaiting
    /\ awaiting' = FALSE
    /\ log' = Append(log, <<"fail", step>>)
    /\ pc' = "catch"

\* Lines 64-67: metadata() resolves with dimensions, resolves without them
\* (the script throws) or rejects.
Metadata ==
    /\ \/ Resolves("metadata")
       \/ Rejects("metadata")
    /\ UNCHANGED <<cwd, imageExists, files, written, worker, calls, leftData, rightData,
                   fullText, questions, uniqueQuestions, output, errors, text,
                   cleaned, recleaned>>

\* Lines 78-85 and 88-95: toFile(name) writes the enhanced column; when it
\* rejects the file may or may not have been created.
Preprocess(step, name) ==
    /\ \/ /\ Resolves(step)
          /\ files' = files \cup {WrittenPath(cwd, name)}
          /\ written' = written \cup {WrittenPath(cwd, name)}
       \/ /\ Rejects(step)
          /\ \/ /\ files' = files \cup {WrittenPath(cwd, name)}
                /\ written' = written \cup {WrittenPath(cwd, name)}
             \/ UNCHANGED <<files, written>>
    /\ UNCHANGED <<cwd, imageExists, worker, calls, leftData, rightData, fullText,
                   questions, uniqueQuestions, output, errors, text, cleaned,
                   recleaned>>

PreprocessLeft == Preprocess("leftPre", PREPROCESSED_LEFT_NAME)

PreprocessRight == Preprocess("rightPre", PREPROCESSED_RIGHT_NAME)

\* Lines 100-102: `worker` is assigned only when createWorker resolves.
CreateWorker ==
    /\ \/ Resolves("createWorker") /\ worker' = "live"
       \/ Rejects("createWorker") /\ worker' = worker
    /\ UNCHANGED <<cwd, imageExists, files, written, calls, leftData, rightData,
                   fullText, questions, uniqueQuestions, output, errors, text,
                   cleaned, recleaned>>

\* Lines 104-108.
SetParameters ==
    /\ \/ Resolves("setParameters")
       \/ Rejects("setParameters")
    /\ UNCHANGED <<cwd, imageExists, files, written, worker, calls, leftData, rightData,
                   fullText, questions, uniqueQuestions, output, errors, text,
                   cleaned, recleaned>>

\* Line 112.
RecognizeLeft ==
    /\ \/ Resolves("recLeft") /\ \E t \in ColumnTexts : leftData' = t
       \/ Rejects("recLeft") /\ leftData' = leftData
    /\ UNCHANGED <<cwd, imageExists, files, written, worker, calls, rightData,
                   fullText, questions, uniqueQuestions, output, errors, text,
                   cleaned, recleaned>>

\* Line 116.
RecognizeRight ==
    /\ \/ Resolves("recRight") /\ \E t \in ColumnTexts : rightData' = t
       \/ Rejects("recRight") /\ rightData' = rightData
    /\ UNCHANGED <<cwd, imageExists, files, written, worker, calls, leftData,
                   fullText, questions, uniqueQuestions, output, errors, text,
                   cleaned, recleaned>>

\* Lines 113-128: the columns are cleaned and joined; the return of the
\* empty-text check leaves the try block for the finally block.
EmptyCheck ==
    /\ pc = "emptyCheck"
    /\ fullText' = FullTextOf[<<leftData, rightData>>]
    /\ IF NoTextFound(leftData, rightData)
       THEN /\ errors' = Append(errors, "NoText")
            /\ pc' = "finally"
       ELSE /\ errors' = errors
            /\ pc' = After("emptyCheck")
    /\ UNCHANGED <<awaiting, cwd, imageExists, files, written, worker, calls, log,
                   leftData, rightData, questions, uniqueQuestions, output, text,
                   cleaned, recleaned>>

\* Lines 131-172.
Parse ==
    /\ pc = "parse"
    /\ questions' = ParsedOf[fullText]
    /\ uniqueQuestions' = UniqueQuestions(questions')
    /\ pc' = After("parse")
    /\ UNCHANGED <<awaiting, cwd, imageExists, files, written, worker, calls, log,
                   leftData, rightData, fullText, output, errors, text, cleaned,
                   recleaned>>

\* Lines 175-185: writeFileSync writes the document or throws.
WriteOutput ==
    /\ pc = "write"
    /\ \/ /\ output' = [exists |-> TRUE, imageFile |-> IMAGE_FILE_NAME,
                        questions |-> uniqueQuestions]
          /\ pc' = After("write")
       \/ /\ output' = output
          /\ pc' = "catch"
    /\ UNCHANGED <<awaiting, cwd, imageExists, files, written, worker, calls, log,
                   leftData, rightData, fullText, questions, uniqueQuestions,
                   errors, text, cleaned, recleaned>>

\* Lines 187-188.
Catch ==
    /\ pc = "catch"
    /\ errors' = Append(errors, "Caught")
    /\ pc' = "finally"
    /\ UNCHANGED <<awaiting, cwd, imageExists, files, written, worker, calls, log,
                   leftData, rightData, fullText, questions, uniqueQuestions,
                   output, text, cleaned, recleaned>>

\* Lines 190-191: terminate() is called on a worker that was assigned.
Finally ==
    /\ pc = "finally"
    /\ IF ShouldTerminate(worker)
       THEN /\ pc' = "terminate"
            /\ awaiting' = TRUE
            /\ calls' = [calls EXCEPT !.terminate = @ + 1]
            /\ log' = Append(log, <<"begin", "terminate">>)
       ELSE /\ pc' = "cleanup"
            /\ UNCHANGED <<awaiting, calls, log>>
    /\ UNCHANGED <<cwd, imageExists, files, written, worker, leftData, rightData,
                   fullText, questions, uniqueQuestions, output, errors, text,
                   cleaned, recleaned>>

\* Lines 191-193: when terminate() rejects, the exception leaves the
\* finally block and the rest of it does not run.
Terminate ==
    /\ pc = "terminate"
    /\ awaiting
    /\ awaiting' = FALSE
    /\ \/ /\ worker' = "terminated"
          /\ log' = Append(log, <<"end", "terminate">>)
          /\ pc' = "cleanup"
       \/ /\ worker' = worker
          /\ log' = Append(log, <<"fail", "terminate">>)
          /\ pc' = "unhandled"
    /\ UNCHANGED <<cwd, imageExists, files, written, calls, leftData, rightData,
                   fullText, questions, uniqueQuestions, output, errors, text,
                   cleaned, recleaned>>

\* Lines 195-200: each of the two files is unlinked if it exists at its
\* path under the project directory.
Cleanup ==
    /\ pc = "cleanup"
    /\ files' = files \ {CleanupPath(cwd, name) :
                            name \in {PREPROCESSED_LEFT_NAME, PREPROCESSED_RIGHT_NAME}}
    /\ pc' = "done"
    /\ UNCHANGED <<awaiting, cwd, imageExists, written, worker, calls, log, leftData,
                   rightData, fullText, questions, uniqueQuestions, output, errors,
                   text, cleaned, recleaned>>

Next ==
    \/ Startup
    \/ Begin
    \/ Metadata
    \/ PreprocessLeft
    \/ PreprocessRight
    \/ CreateWorker
    \/ SetParameters
    \/ RecognizeLeft
    \/ RecognizeRight
    \/ EmptyCheck
    \/ Parse
    \/ WriteOutput
    \/ Catch
    \/ Finally
    \/ Terminate
    \/ Cleanup

Spec == Init /\ [][Next]_vars

\* Every awaited call settles and the script runs on: the event loop keeps
\* no step of the single thread of control waiting for ever.
FairSpec == Spec /\ WF_vars(Next)

\* The run is over: the main function returned, or its promise rejected.
RunEnded == pc \in {"done", "unhandled"}


-----------------------------------------------------------------------------
(* cleanOCRText on its own: every text up to MaxTextLen characters over    *)
(* an alphabet the dash, root, confusable-letter, bracket and white-space  *)
(* rules act on, cleaned once and then once more.                          *)

CleanAlphabet == {"A", "B", EMDASH, "-", " ", TAB, "r", "O", "t", "["}

CleanTexts == UNION {[1..n -> CleanAlphabet] : n \in 0..MaxTextLen}

\* The run's variables while a function is studied on its own.
RunIdle ==
    /\ awaiting = FALSE
    /\ cwd = ProjectDir
    /\ imageExists = TRUE
    /\ files = {}
    /\ written = {}
    /\ worker = "unset"
    /\ calls = [createWorker |-> 0, terminate |-> 0]
    /\ log = <<>>
    /\ leftData = NoData
    /\ rightData = NoData
    /\ fullText = <<>>
    /\ output = NoOutput
    /\ errors = <<>>

CleanInit ==
    /\ RunIdle
    /\ pc = "clean"
    /\ questions = <<>>
    /\ uniqueQuestions = <<>>
    /\ text \in CleanTexts
    /\ cleaned = <<>>
    /\ recleaned = <<>>

Clean ==
    /\ pc = "clean"
    /\ cleaned' = cleanOCRText(text)
    /\ pc' = "reclean"
    /\ UNCHANGED <<runVars, questions, uniqueQuestions, text, recleaned>>

Reclean ==
    /\ pc = "reclean"
    /\ recleaned' = cleanOCRText(cleaned)
    /\ pc' = "cleaned"
    /\ UNCHANGED <<runVars, questions, uniqueQuestions, text, cleaned>>

CleanNext == Clean \/ Reclean

CleanSpec == CleanInit /\ [][CleanNext]_vars

-----------------------------------------------------------------------------
(* uniqueQuestions on its own: every sequence of up to MaxQuestions        *)
(* accepted questions numbered 1..MaxQNum, two question texts apart.       *)

SampleOptions ==
    <<[key |-> <<"a">>, text |-> <<"5">>], [key |-> <<"b">>, text |-> <<"6">>]>>

SampleQuestionTexts ==
    {<<"W", "h", "a", "t", " ", "i", "s", " ", "3", "+", "3", "?">>,
     <<"W", "h", "a", "t", " ", "i", "s", " ", "4", "+", "4", "?">>}

QuestionPool ==
    {[questionNumber |-> n, text |-> t, options |-> SampleOptions] :
        n \in 1..MaxQNum, t \in SampleQuestionTexts}

QuestionSeqs == UNION {[1..n -> QuestionPool] : n \in 0..MaxQuestions}

DedupInit ==
    /\ RunIdle
    /\ pc = "dedup"
    /\ questions \in QuestionSeqs
    /\ uniqueQuestions = <<>>
    /\ text = <<>>
    /\ cleaned = <<>>
    /\ recleaned = <<>>

Dedup ==
    /\ pc = "dedup"
    /\ uniqueQuestions' = UniqueQuestions(questions)
    /\ pc' = "deduped"
    /\ UNCHANGED <<runVars, questions, cleanVars>>

DedupNext == Dedup

DedupSpec == DedupInit /\ [][DedupNext]_vars


-----------------------------------------------------------------------------
(* The claims.                                                             *)

Began(step) == \E k \in 1..Len(log) : log[k] = <<"begin", step>>
Ended(step) == \E k \in 1..Len(log) : log[k] = <<"end", step>>
Failed(step) == \E k \in 1..Len(log) : log[k] = <<"fail", step>>
Logged(message) == \E k \in 1..Len(errors) : errors[k] = message

\* `step` began only after `before` had completed.
BeganAfterEnd(step, before) ==
    \E i, j \in 1..Len(log) :
        i < j /\ log[i] = <<"end", before>> /\ log[j] = <<"begin", step>>

Option(key, optionText) == [key |-> <<key>>, text |-> <<optionText>>]

\* C1: when the left column reads "1. What is 2+2? a) 3 b) 4 c) 5 d) 6"
\* (marker, a body of more than 10 characters, options written letter,
\* close-paren, text), the parser emits a question numbered 1 whose options
\* are a:3, b:4, c:5, d:6 in that order.
C1_PlainOptionsParsed ==
    (pc = "write" /\ leftData = SpecExample) =>
        \E k \in 1..Len(questions) :
            /\ questions[k].questionNumber = 1
            /\ questions[k].options =
                   <<Option("a", "3"), Option("b", "4"), Option("c", "5"), Option("d", "6")>>

\* C2: when a run that passed the image check ends, no intermediate file
\* it wrote still exists at the path it was written to.
C2_NoIntermediateFileSurvives == RunEnded => written \cap files = {}

\* C3: the worker is created at most once and terminate() is invoked at
\* most once; once the worker is created terminate() is eventually
\* invoked; and a run that created the worker has invoked terminate()
\* exactly once when it ends.
C3_WorkerReleasedOnce ==
    /\ [](calls.createWorker <= 1 /\ calls.terminate <= 1)
    /\ [](worker = "live" => <>(calls.terminate = 1))
    /\ [](RunEnded /\ worker # "unset" => calls.terminate = 1)

\* C3 witness: a run that created the worker, threw (the catch block
\* logged the error) and ended with terminate() invoked once.
C3_Witness ==
    RunEnded /\ Ended("createWorker") /\ Logged("Caught") /\ calls.terminate = 1

\* C4: uniqueQuestions is strictly ascending by questionNumber, each of
\* its entries is the first question of its number in the accepted
\* sequence, and every number of the accepted sequence is in it.
C4_FirstSeenThenSorted ==
    pc = "deduped" =>
        /\ \A i, j \in 1..Len(uniqueQuestions) :
               i < j => uniqueQuestions[i].questionNumber < uniqueQuestions[j].questionNumber
        /\ \A i \in 1..Len(uniqueQuestions) :
               \E k \in 1..Len(questions) :
                   /\ questions[k] = uniqueQuestions[i]
                   /\ \A m \in 1..(k - 1) :
                          questions[m].questionNumber # questions[k].questionNumber
        /\ \A k \in 1..Len(questions) :
               \E i \in 1..Len(uniqueQuestions) :
                   uniqueQuestions[i].questionNumber = questions[k].questionNumber

\* C4 witness: a deduplicated sequence in which a number came twice with
\* different questions and a larger number came before a smaller one.
C4_Witness ==
    /\ pc = "deduped"
    /\ \E i, j \in 1..Len(questions) :
           /\ i < j
           /\ questions[i].questionNumber = questions[j].questionNumber
           /\ questions[i] # questions[j]
    /\ \E i, j \in 1..Len(questions) :
           i < j /\ questions[i].questionNumber > questions[j].questionNumber

\* C5: every question accepted, and every question of the written
\* document, has a text of more than 10 characters and at least 2 options.
C5_MinimumContent ==
    /\ \A k \in 1..Len(questions) :
           Len(questions[k].text) > 10 /\ Len(questions[k].options) >= 2
    /\ output.exists =>
           \A k \in 1..Len(output.questions) :
               /\ Len(output.questions[k].text) > 10
               /\ Len(output.questions[k].options) >= 2

\* C5 witness: a document written from a column whose block has a short
\* question text, a column whose block has one option only, or both, beside
\* a block that was accepted.
C5_Witness ==
    /\ output.exists
    /\ leftData \in {ShortBlock, OneOptionBlock}
    /\ rightData = ParenBlock
    /\ Len(output.questions) = 1

\* C6: cleanOCRText("A <em-dash> B") is "A - B" and cleanOCRText("A-B") is
\* "A-B": the em-dash comes out spaced, the hyphen tight.
C6_DashRules ==
    pc # "clean" =>
        /\ text = <<"A", " ", EMDASH, " ", "B">> => cleaned = <<"A", " ", "-", " ", "B">>
        /\ text = <<"A", "-", "B">> => cleaned = <<"A", "-", "B">>

\* C7: cleaning the cleaned text once more changes nothing.
C7_Idempotent == pc = "cleaned" => recleaned = cleaned

\* C8: the run takes the empty-recognition path exactly when both columns
\* yield empty text, and a run with some text in a column and no exception
\* writes the document.
C8_EmptyStopIffBothEmpty ==
    /\ Logged("NoText") => leftData = <<>> /\ rightData = <<>>
    /\ pc = "parse" => ~(leftData = <<>> /\ rightData = <<>>)
    /\ (pc = "done" /\ Ended("recRight") /\ ~Logged("Caught")
           /\ (leftData # <<>> \/ rightData # <<>>)) => output.exists

\* C9 as stated: the right column's enhancement begins only after the left
\* column's enhancement and recognition have both completed.
C9_LeftColumnFirst ==
    Began("rightPre") =>
        BeganAfterEnd("rightPre", "leftPre") /\ BeganAfterEnd("rightPre", "recLeft")

\* C9 as amended: the left enhancement completes before the right
\* enhancement begins, the right enhancement completes before the left
\* recognition begins, the left recognition completes before the right
\* recognition begins, and no step begins while another is pending.
C9_StageByStage ==
    /\ Began("rightPre") => BeganAfterEnd("rightPre", "leftPre")
    /\ Began("recLeft") => BeganAfterEnd("recLeft", "rightPre")
    /\ Began("recRight") => BeganAfterEnd("recRight", "recLeft")
    /\ \A k \in 1..(Len(log) - 1) :
           log[k][1] = "begin" => log[k + 1][1] # "begin" /\ log[k + 1][2] = log[k][2]

\* C9 witness: the right column's recognition has begun.
C9_Witness == Began("recRight") /\ pc = "recRight" /\ awaiting

\* The numbers of the markers of a text, from position i on: each run of
\* one or two digits, not part of a longer run, that a dot and white space
\* follow.
IsMarker(s, i) ==
    /\ At(s, i, Digit) /\ ~At(s, i - 1, Digit)
    /\ RunEnd(s, i, Digit) - i <= 2
    /\ At(s, RunEnd(s, i, Digit), {"."})
    /\ At(s, RunEnd(s, i, Digit) + 1, WhiteSpace)

RECURSIVE MarkerNumbersFrom(_, _)
MarkerNumbersFrom(s, i) ==
    LET hits == {k \in i..Len(s) : IsMarker(s, k)} IN
    IF hits = {} THEN <<>>
    ELSE LET k == First(hits)
         IN  <<ParseInt(SubSeq(s, k, RunEnd(s, k, Digit) - 1))>>
                 \o MarkerNumbersFrom(s, RunEnd(s, k, Digit))

\* The numbers qMatch finds at the head of the blocks, in block order.
RECURSIVE BlockNumbersFrom(_, _)
BlockNumbersFrom(blocks, i) ==
    IF i > Len(blocks) THEN <<>>
    ELSE IF ParseBlock(blocks[i]).matched
         THEN <<ParseBlock(blocks[i]).question.questionNumber>>
                  \o BlockNumbersFrom(blocks, i + 1)
         ELSE BlockNumbersFrom(blocks, i + 1)

\* C10: splitting yields one block for each marker of the normalized text,
\* and the number parsed from the block is the marker's number: the
\* numbers of the matched blocks are the numbers of the markers, in order.
C10_MarkersKeptWhole ==
    pc = "write" =>
        BlockNumbersFrom(QuestionBlocks(NormalizedText(fullText)), 1)
            = MarkerNumbersFrom(NormalizedText(fullText), 1)

=============================================================================
